---------------------------- MODULE Spec2Model ----------------------------
(***************************************************************************)
(* Nexus Clinical (Med_App): the scroll-spy navigator, the mode switch and *)
(* the BMI and age fields of App.tsx, and the Select and the TextArea of   *)
(* components/FormElements, as state machines.                             *)
(*                                                                         *)
(* JavaScript runs every handler to completion on one thread, so a handler *)
(* is one action, except scrollToSection, which is split at its statements *)
(* (pc) so that the order of its writes is visible.                        *)
(***************************************************************************)
EXTENDS Integers, Sequences, FiniteSets, TLC

(***************************************************************************)
(* Program constants.                                                      *)
(***************************************************************************)
\* App.tsx:44-52, the fixed top-to-bottom order of the sections.
SECTIONS == << "identity", "concern", "hpi", "ros", "background", "exam", "plan" >>

SectionIds == { SECTIONS[i] : i \in 1..Len(SECTIONS) }

LookAhead == 300          \* App.tsx:155  triggerPoint = scrollY + 300
HeaderHeight == 140       \* App.tsx:162  adjustedTop = offsetTop - 140
TrailingMargin == 100     \* App.tsx:163  ... + offsetHeight + 100
HeaderOffset == 110       \* App.tsx:190  yOffset = -110
SettleDelay == 50         \* App.tsx:199  setTimeout(..., 50)
LockDelay == 800          \* App.tsx:195  setTimeout(..., 800)

(***************************************************************************)
(* Bounds of the model.                                                    *)
(***************************************************************************)
MaxTimers == 2            \* timers pending at once (two overlapping clicks)
PageTop == 140            \* document offset of the first section
CollapsedHeight == 100    \* rendered height of a collapsed section
ExpandedHeight == 400     \* rendered height of an expanded section
SectionGap == 64          \* vertical space between two sections
ScrollStep == 180         \* scroll offsets are multiples of ScrollStep

NoId == "none"            \* no section: no scrollToSection is running, and
                          \* the 800 ms callback does not use its section
NoCall == << >>           \* the last step did not call window.scrollTo

VARIABLES
    mounted,            \* the App component is mounted: its elements exist
    activeSectionId,    \* App.tsx:82
    expandedSections,   \* App.tsx:78-81
    isManualScrolling,  \* App.tsx:93, the scroll-spy lock (a ref)
    timers,             \* pending setTimeout callbacks, in creation order
    scrollY,            \* window.scrollY = window.pageYOffset
    scrollCall,         \* top passed to window.scrollTo by the last step
    lastEvent,          \* the handler or callback the last step ran
    pc,                 \* position inside scrollToSection
    navId               \* the id argument of the running scrollToSection

navVars == << mounted, activeSectionId, expandedSections, isManualScrolling,
              timers, scrollY, scrollCall, lastEvent, pc, navId >>

\* One Select instance (components/FormElements).
VARIABLES
    selVariant,         \* which FormElements file the Select comes from
    options,            \* the options prop
    value,              \* the value prop, Undefined when the caller omits it
    hasOnChange,        \* the caller supplies onChange
    isOpen,             \* useState(false)
    internalSelected,   \* useState("")
    coords,             \* useState({ top: 0, left: 0, width: 0 })
    activeIndex,        \* useState(0), 0-based as in the code
    focus,              \* the element holding DOM focus
    listeners,          \* how many listeners of each kind are now registered
    rect,               \* the trigger's bounding client rect
    selEvent,           \* the event the last step handled, with its argument
    lastChange          \* the argument of onChange if the last step called it

selVars == << selVariant, options, value, hasOnChange, isOpen, internalSelected,
              coords, activeIndex, focus, listeners, rect, selEvent, lastChange >>

\* The anthropometry fields of the Patient Identity section.
VARIABLES
    height,             \* App.tsx:85, the text of the height input
    weight,             \* App.tsx:86, the text of the weight input
    bmi,                \* App.tsx:87, the BMI text, NoBmi for null
    age,                \* App.tsx:90, the text of the Age / DOB input
    ageEvent            \* the last event of the Age / DOB input

\* One TextArea.
VARIABLES
    taVariant,          \* which of the two TextArea components it is
    taControlled,       \* whether the caller passes the value prop
    taValue,            \* the value prop, as its lines; empty when not passed
    taHasOnChange,      \* whether the caller passes onChange
    taText,             \* the text of the textarea element, as its lines
    taHeight,           \* element.style.height in px, Unset when never written
    taWrites,           \* the writes to element.style.height in the last step
    taEvent             \* the last event of the TextArea

taVars == << taVariant, taControlled, taValue, taHasOnChange, taText, taHeight, taWrites, taEvent >>

\* The clinical mode of the form.
VARIABLES
    mode                \* App.tsx:76

formVars == << height, weight, bmi, age, ageEvent, taVars, mode >>

vars == << navVars, selVars, formVars >>

(***************************************************************************)
(* The document layout the handlers read.                                  *)
(***************************************************************************)
IndexOf(id) == CHOOSE i \in 1..Len(SECTIONS) : SECTIONS[i] = id

\* element.offsetHeight: a Section's body has max-h-0 when closed.
OffsetHeight(exp, id) == IF exp[id] THEN ExpandedHeight ELSE CollapsedHeight

RECURSIVE StackedTop(_, _)
StackedTop(exp, i) ==
    IF i = 1 THEN PageTop
    ELSE StackedTop(exp, i - 1) + OffsetHeight(exp, SECTIONS[i - 1]) + SectionGap

\* element.offsetTop: the sections are stacked in SECTIONS order.
OffsetTop(exp, id) == StackedTop(exp, IndexOf(id))

\* el.getBoundingClientRect().top: the document top seen from the viewport.
RectTop(exp, y, id) == OffsetTop(exp, id) - y

\* The scroll offsets a scroll event may report.
ScrollYs == { k * ScrollStep : k \in { 0, 1, 9 } }

(***************************************************************************)
(* Scroll spy: handleScroll, App.tsx:151-172.                              *)
(***************************************************************************)
\* App.tsx:162-163, the test of one section against the trigger point.
InWindow(exp, id, triggerPoint) ==
    LET adjustedTop == OffsetTop(exp, id) - HeaderHeight
    IN  /\ triggerPoint >= adjustedTop
        /\ triggerPoint < adjustedTop + OffsetHeight(exp, id) + TrailingMargin

\* Mutant of SpyScan: the loop stops at the first section that matches.
RECURSIVE SpyScanFirstMatch(_, _, _, _)
SpyScanFirstMatch(exp, triggerPoint, i, current) ==
    IF i > Len(SECTIONS) THEN current
    ELSE IF InWindow(exp, SECTIONS[i], triggerPoint) THEN SECTIONS[i]
    ELSE SpyScanFirstMatch(exp, triggerPoint, i + 1, current)

\* App.tsx:157-167, the loop over SECTIONS from index i on; `current` is
\* overwritten by every section that matches.
RECURSIVE SpyScan(_, _, _, _)
SpyScan(exp, triggerPoint, i, current) ==
    IF i > Len(SECTIONS) THEN current
    ELSE SpyScan(exp, triggerPoint, i + 1,
                 IF InWindow(exp, SECTIONS[i], triggerPoint)
                 THEN SECTIONS[i] ELSE current)

\* Mutant of SpyResult: `current` starts as no section.
SpyResultFromNone(exp, y, active) == SpyScan(exp, y + LookAhead, 1, NoId)

\* App.tsx:154-167, the section the handler computes at scroll offset y.
SpyResult(exp, y, active) == SpyScan(exp, y + LookAhead, 1, active)

\* Mutant of HandleScroll: the lock is not consulted.
HandleScrollUnlocked(y) ==
    /\ pc = "idle"
    /\ mounted
    /\ y # scrollY
    /\ scrollY' = y
    /\ activeSectionId' = SpyResult(expandedSections, y, activeSectionId)
    /\ scrollCall' = NoCall
    /\ lastEvent' = "scroll"
    /\ UNCHANGED << mounted, expandedSections, isManualScrolling, timers, pc, navId >>
    /\ UNCHANGED << selVars, formVars >>

\* A window scroll event at offset y; the listener exists while mounted.
HandleScroll(y) ==
    /\ pc = "idle"
    /\ mounted
    /\ y # scrollY
    /\ scrollY' = y
    /\ activeSectionId' =
          IF isManualScrolling THEN activeSectionId
          ELSE SpyResult(expandedSections, y, activeSectionId)
    /\ scrollCall' = NoCall
    /\ lastEvent' = "scroll"
    /\ UNCHANGED << mounted, expandedSections, isManualScrolling, timers, pc, navId >>
    /\ UNCHANGED << selVars, formVars >>

(***************************************************************************)
(* toggleSection, App.tsx:178-180.                                         *)
(***************************************************************************)
\* Mutant of ToggleSection: the previous record is not spread.
ToggleSectionNoSpread(id) ==
    /\ pc = "idle"
    /\ mounted
    /\ expandedSections' = [s \in SectionIds |-> s = id /\ ~ expandedSections[id]]
    /\ scrollCall' = NoCall
    /\ lastEvent' = "toggle"
    /\ UNCHANGED << mounted, activeSectionId, isManualScrolling, timers, scrollY, pc, navId >>
    /\ UNCHANGED << selVars, formVars >>

ToggleSection(id) ==
    /\ pc = "idle"
    /\ mounted
    /\ expandedSections' = [expandedSections EXCEPT ![id] = ~ expandedSections[id]]
    /\ scrollCall' = NoCall
    /\ lastEvent' = "toggle"
    /\ UNCHANGED << mounted, activeSectionId, isManualScrolling, timers, scrollY, pc, navId >>
    /\ UNCHANGED << selVars, formVars >>

(***************************************************************************)
(* scrollToSection, App.tsx:182-200, statement by statement.               *)
(***************************************************************************)
\* Mutant of NavSetLock: the active section is written before the lock.
NavSetActiveFirst(id) ==
    /\ pc = "idle"
    /\ mounted
    /\ Len(timers) < MaxTimers
    /\ activeSectionId # id
    /\ activeSectionId' = id
    /\ pc' = "l185"
    /\ navId' = id
    /\ scrollCall' = NoCall
    /\ lastEvent' = "click"
    /\ UNCHANGED << mounted, isManualScrolling, expandedSections, timers, scrollY >>
    /\ UNCHANGED << selVars, formVars >>

\* App.tsx:183-184: the early return, then the lock is set.
NavSetLock(id) ==
    /\ pc = "idle"
    /\ mounted
    /\ Len(timers) < MaxTimers
    /\ activeSectionId # id
    /\ isManualScrolling' = TRUE
    /\ pc' = "l185"
    /\ navId' = id
    /\ scrollCall' = NoCall
    /\ lastEvent' = "click"
    /\ UNCHANGED << mounted, activeSectionId, expandedSections, timers, scrollY >>
    /\ UNCHANGED << selVars, formVars >>

\* App.tsx:185: setActiveSectionId(id).
NavSetActive ==
    /\ pc = "l185"
    /\ activeSectionId' = navId
    /\ pc' = "l186"
    /\ UNCHANGED << mounted, expandedSections, isManualScrolling, timers, scrollY,
                    scrollCall, lastEvent, navId >>
    /\ UNCHANGED << selVars, formVars >>

\* Mutant of NavExpandAndSchedule: the section is not expanded.
NavScheduleOnly ==
    /\ pc = "l186"
    /\ expandedSections' = expandedSections
    /\ timers' = Append(timers, [kind |-> "settle", delay |-> SettleDelay, id |-> navId])
    /\ pc' = "idle"
    /\ navId' = NoId
    /\ UNCHANGED << mounted, activeSectionId, isManualScrolling, scrollY, scrollCall,
                    lastEvent >>
    /\ UNCHANGED << selVars, formVars >>

\* App.tsx:186-187 and 199: the section is expanded and the settle timer set.
NavExpandAndSchedule ==
    /\ pc = "l186"
    /\ expandedSections' = [expandedSections EXCEPT ![navId] = TRUE]
    /\ timers' = Append(timers, [kind |-> "settle", delay |-> SettleDelay, id |-> navId])
    /\ pc' = "idle"
    /\ navId' = NoId
    /\ UNCHANGED << mounted, activeSectionId, isManualScrolling, scrollY, scrollCall,
                    lastEvent >>
    /\ UNCHANGED << selVars, formVars >>

\* Mutant of NavReturn: the section is expanded before the early return.
NavReturnExpands(id) ==
    /\ pc = "idle"
    /\ mounted
    /\ activeSectionId = id
    /\ expandedSections' = [expandedSections EXCEPT ![id] = TRUE]
    /\ scrollCall' = NoCall
    /\ lastEvent' = "same"
    /\ UNCHANGED << mounted, activeSectionId, isManualScrolling, timers, scrollY, pc, navId >>
    /\ UNCHANGED << selVars, formVars >>

\* App.tsx:183: scrollToSection(id) for the section that is active returns
\* at once.
NavReturn(id) ==
    /\ pc = "idle"
    /\ mounted
    /\ activeSectionId = id
    /\ scrollCall' = NoCall
    /\ lastEvent' = "same"
    /\ UNCHANGED << mounted, activeSectionId, expandedSections, isManualScrolling,
                    timers, scrollY, pc, navId >>
    /\ UNCHANGED << selVars, formVars >>

(***************************************************************************)
(* The mode switch, App.tsx:300-306.                                       *)
(***************************************************************************)
\* App.tsx:7-35, the keys of MODES.
Modes == { "adult", "obgyn", "peds" }

\* App.tsx:306, setMode(m): every section stays rendered in every mode.
SetMode(m) ==
    /\ pc = "idle"
    /\ mounted
    /\ m # mode
    /\ mode' = m
    /\ scrollCall' = NoCall
    /\ lastEvent' = "mode"
    /\ UNCHANGED << mounted, activeSectionId, expandedSections, isManualScrolling,
                    timers, scrollY, pc, navId >>
    /\ UNCHANGED << height, weight, bmi, age, ageEvent, taVars, selVars >>

(***************************************************************************)
(* Timers.  setTimeout runs callbacks in deadline order: a timer created   *)
(* earlier with a delay that is not longer has the earlier deadline, so it *)
(* runs first; otherwise the order depends on when the clicks happened.    *)
(***************************************************************************)
CanFire(i) == \A j \in 1..(i - 1) : timers[j].delay > timers[i].delay

Without(i) == SubSeq(timers, 1, i - 1) \o SubSeq(timers, i + 1, Len(timers))

\* Mutant of ScrollTarget: the page offset is not added to the viewport top.
ScrollTargetViewport(exp, y, id) == RectTop(exp, y, id) + (0 - HeaderOffset)

\* App.tsx:191, the top passed to window.scrollTo.
ScrollTarget(exp, y, id) == RectTop(exp, y, id) + y + (0 - HeaderOffset)

\* Mutant of SettleFires: without the element the lock is left as it is.
SettleFiresKeepsLock(i) ==
    /\ pc = "idle"
    /\ i \in 1..Len(timers)
    /\ timers[i].kind = "settle"
    /\ CanFire(i)
    /\ IF mounted
       THEN /\ scrollCall' = << RectTop(expandedSections, scrollY, timers[i].id)
                                + scrollY + (0 - HeaderOffset) >>
            /\ timers' = Append(Without(i),
                     [kind |-> "unlock", delay |-> LockDelay, id |-> NoId])
       ELSE /\ timers' = Without(i)
            /\ scrollCall' = NoCall
    /\ lastEvent' = "settle"
    /\ UNCHANGED << mounted, activeSectionId, expandedSections, isManualScrolling,
                    scrollY, pc, navId >>
    /\ UNCHANGED << selVars, formVars >>

\* Mutant of SettleFires: the element is not tested.
SettleFiresUnchecked(i) ==
    /\ pc = "idle"
    /\ i \in 1..Len(timers)
    /\ timers[i].kind = "settle"
    /\ CanFire(i)
    /\ scrollCall' = << ScrollTarget(expandedSections, scrollY, timers[i].id) >>
    /\ timers' = Append(Without(i), [kind |-> "unlock", delay |-> LockDelay, id |-> NoId])
    /\ lastEvent' = "settle"
    /\ UNCHANGED << mounted, activeSectionId, expandedSections, isManualScrolling,
                    scrollY, pc, navId >>
    /\ UNCHANGED << selVars, formVars >>

\* App.tsx:187-199, the callback of the 50 ms timer.
SettleFires(i) ==
    /\ pc = "idle"
    /\ i \in 1..Len(timers)
    /\ timers[i].kind = "settle"
    /\ CanFire(i)
    /\ IF mounted
       THEN /\ scrollCall' = << ScrollTarget(expandedSections, scrollY, timers[i].id) >>
            /\ timers' = Append(Without(i),
                     [kind |-> "unlock", delay |-> LockDelay, id |-> NoId])
            /\ UNCHANGED isManualScrolling
       ELSE /\ isManualScrolling' = FALSE
            /\ timers' = Without(i)
            /\ scrollCall' = NoCall
    /\ lastEvent' = "settle"
    /\ UNCHANGED << mounted, activeSectionId, expandedSections, scrollY, pc, navId >>
    /\ UNCHANGED << selVars, formVars >>

\* Mutant of UnlockFires: the lock is cleared only by the timer of the most
\* recent click (no other timer is pending).
UnlockFiresIfLast(i) ==
    /\ pc = "idle"
    /\ i \in 1..Len(timers)
    /\ timers[i].kind = "unlock"
    /\ CanFire(i)
    /\ isManualScrolling' = IF Len(timers) = 1 THEN FALSE ELSE isManualScrolling
    /\ timers' = Without(i)
    /\ scrollCall' = NoCall
    /\ lastEvent' = "unlock"
    /\ UNCHANGED << mounted, activeSectionId, expandedSections, scrollY, pc, navId >>
    /\ UNCHANGED << selVars, formVars >>

\* App.tsx:193-195, the callback of the 800 ms timer.
UnlockFires(i) ==
    /\ pc = "idle"
    /\ i \in 1..Len(timers)
    /\ timers[i].kind = "unlock"
    /\ CanFire(i)
    /\ isManualScrolling' = FALSE
    /\ timers' = Without(i)
    /\ scrollCall' = NoCall
    /\ lastEvent' = "unlock"
    /\ UNCHANGED << mounted, activeSectionId, expandedSections, scrollY, pc, navId >>
    /\ UNCHANGED << selVars, formVars >>

\* App.tsx:175: the component unmounts; its elements and listener are gone,
\* its timers are not cancelled.
Unmount ==
    /\ pc = "idle"
    /\ mounted
    /\ mounted' = FALSE
    /\ scrollCall' = NoCall
    /\ lastEvent' = "unmount"
    /\ UNCHANGED << activeSectionId, expandedSections, isManualScrolling, timers,
                    scrollY, pc, navId >>
    /\ UNCHANGED << selVars, formVars >>


(***************************************************************************)
(* Select: part_001 (with keyboard support) and part_000 (pointer only).   *)
(***************************************************************************)
Undefined == "undefined"      \* an omitted prop
NoChange == << >>             \* the last step did not call onChange
MenuOffset == 8               \* part_001:218, part_000:241  rect.bottom + 8

Keyboard == "part_001"
Basic == "part_000"

\* The elements that can hold DOM focus.
Trigger == << "trigger", 0 >>          \* the Select's button
Page == << "page", 0 >>                \* an element outside the Select
Menu == << "menu", 0 >>                \* the listbox of the open list
Option(index) == << "option", index >> \* the option button at a 0-based index

\* App.tsx:364 passes these options; an empty list and a single option are
\* the edge cases of the keyboard navigation.
OptionLists == { << >>, << "Female" >>, << "Female", "Male", "Other" >> }

\* The values a caller may pass as the value prop.
ValueProps == { Undefined, "", "Male" }

\* The on-screen places of the trigger: scrolling or resizing the window
\* moves it from one to another.
Rects == { [bottom |-> 120, left |-> 16, width |-> 200],
           [bottom |-> 60, left |-> 16, width |-> 160] }

OpenerKeys == { "Enter", " ", "Spacebar", "ArrowDown", "ArrowUp" }
Keys == OpenerKeys \cup { "Home", "End", "Escape", "Tab", "a" }

\* Mutant of SelectedValue: an internal selection, once made, is preferred.
SelectedValuePreferInternal(v, internal) ==
    IF internal # "" THEN internal ELSE IF v # Undefined THEN v ELSE internal

\* part_001:196, part_000:226
SelectedValue(v, internal) == IF v # Undefined THEN v ELSE internal

\* Array.prototype.indexOf, 0-based, -1 when absent.
RECURSIVE IndexFrom(_, _, _)
IndexFrom(opts, x, i) ==
    IF i > Len(opts) THEN 0 - 1
    ELSE IF opts[i] = x THEN i - 1
    ELSE IndexFrom(opts, x, i + 1)

\* Mutant of InitialIndex: the list always opens on its first option.
InitialIndexFirst(opts, sel) == 0

\* part_001:279-280 and 293-294
InitialIndex(opts, sel) ==
    LET selectedIndex == IF sel # "" THEN IndexFrom(opts, sel, 1) ELSE 0 - 1
    IN  IF selectedIndex >= 0 THEN selectedIndex ELSE 0

\* part_001:198-203: optionRefs holds the rendered options of an open list.
HasOption(opts, index) == index >= 0 /\ index < Len(opts)

\* part_001:214-222, part_000:238-245: the coordinates openDropdown stores.
OpenCoords(r) == [top |-> r.bottom + MenuOffset, left |-> r.left, width |-> r.width]

\* part_001:265-274, part_000:259-264: the listeners the effect of [isOpen]
\* leaves registered once the Select has rendered with isOpen = open.
ListenersFor(variant, open) ==
    IF ~ open THEN {}
    ELSE IF variant = Keyboard THEN { "mousedown", "scroll", "resize" }
    ELSE { "mousedown" }

\* The kinds of listener a Select registers on document and window.
ListenerKinds == { "mousedown", "scroll", "resize" }

\* Mutant of EffectListeners: the cleanup does not remove the scroll listener.
EffectListenersLeaky(variant, wasOpen, open, cur) ==
    [k \in ListenerKinds |->
        cur[k] - (IF k \in ListenersFor(variant, wasOpen) \ { "scroll" } THEN 1 ELSE 0)
               + (IF k \in ListenersFor(variant, open) THEN 1 ELSE 0)]

\* part_001:239-275, part_000:250-265: the effect of [isOpen] when isOpen
\* changes from wasOpen to open.  The cleanup of the previous run removes the
\* handlers that run registered, then the new run registers its own; cur
\* counts the registrations of each kind.
EffectListeners(variant, wasOpen, open, cur) ==
    [k \in ListenerKinds |->
        cur[k] - (IF k \in ListenersFor(variant, wasOpen) THEN 1 ELSE 0)
               + (IF k \in ListenersFor(variant, open) THEN 1 ELSE 0)]

\* part_001:277-287: what the effect of [isOpen, options, selectedValue] does
\* to the active index when it runs after a render with isOpen = open.
EffectIndex(variant, open, opts, sel, index) ==
    IF variant = Keyboard /\ open THEN InitialIndex(opts, sel) ELSE index

\* part_001:282 and 285: where that effect leaves DOM focus; f is the focus
\* before it runs.  part_000 has no such effect.
EffectFocus(variant, open, opts, sel, f) ==
    IF variant # Keyboard THEN f
    ELSE IF ~ open THEN Trigger
    ELSE IF HasOption(opts, InitialIndex(opts, sel))
         THEN Option(InitialIndex(opts, sel))
         ELSE f

\* The caller's state after onChange(val): a caller that also passes value
\* stores what it is told; a caller that omits value has nothing to pass.
ParentValue(v, val) == IF v # Undefined THEN val ELSE v

\* The render and effects that follow a handler that set isOpen to open and
\* left focus at f: shared by every handler that opens or closes.
Rerender(open, sel, f, index) ==
    /\ isOpen' = open
    /\ listeners' = IF open # isOpen
                    THEN EffectListeners(selVariant, isOpen, open, listeners)
                    ELSE listeners
    /\ activeIndex' = IF open # isOpen
                      THEN EffectIndex(selVariant, open, options, sel, index)
                      ELSE index
    /\ focus' = IF open # isOpen
                THEN EffectFocus(selVariant, open, options, sel, f)
                ELSE f

\* part_001:205-212, part_000:228-235: handleSelect(val).
HandleSelect(val) ==
    /\ IF hasOnChange
       THEN /\ lastChange' = << val >>
            /\ value' = ParentValue(value, val)
            /\ UNCHANGED internalSelected
       ELSE /\ internalSelected' = val
            /\ lastChange' = NoChange
            /\ UNCHANGED value
    /\ Rerender(FALSE, SelectedValue(value', internalSelected'), focus, activeIndex)
    /\ UNCHANGED << coords >>

\* part_001:214-224: openDropdown(); index is the active index set before it.
OpenDropdown(f, index) ==
    /\ coords' = OpenCoords(rect)
    /\ Rerender(TRUE, SelectedValue(value, internalSelected), f, index)
    /\ lastChange' = NoChange
    /\ UNCHANGED << value, internalSelected >>

\* Mutant of CloseDropdown: closing commits the option that is active.
CloseDropdownCommits(f) ==
    /\ internalSelected' = IF HasOption(options, activeIndex)
                           THEN options[activeIndex + 1] ELSE internalSelected
    /\ Rerender(FALSE, SelectedValue(value, internalSelected'), f, activeIndex)
    /\ lastChange' = NoChange
    /\ UNCHANGED << value, coords >>

\* part_001:226-228: closeDropdown(); also setIsOpen(false) at 258 and 262.
CloseDropdown(f) ==
    /\ Rerender(FALSE, SelectedValue(value, internalSelected), f, activeIndex)
    /\ lastChange' = NoChange
    /\ UNCHANGED << value, internalSelected, coords >>

\* part_001:230-236, part_000:237-247: toggleDropdown(), the trigger's
\* onClick.  The mousedown that precedes the click is inside the container,
\* so handleGlobalClick ignores it, and it focuses the trigger.
ClickTrigger ==
    /\ selEvent' = << "trigger", "click" >>
    /\ IF isOpen THEN CloseDropdown(Trigger)
                 ELSE OpenDropdown(Trigger, activeIndex)
    /\ UNCHANGED << selVariant, options, hasOnChange, rect >>
    /\ UNCHANGED << navVars, formVars >>

\* part_001:289-303: handleButtonKeyDown, a key pressed on the focused
\* trigger.  part_000 has no key handler: Enter and Space click the button.
KeyOnTrigger(key) ==
    /\ focus = Trigger
    /\ selEvent' = << "trigger", key >>
    /\ IF selVariant = Keyboard
       THEN IF key \in OpenerKeys
            THEN IF ~ isOpen
                 THEN OpenDropdown(focus,
                        InitialIndex(options, SelectedValue(value, internalSelected)))
                 ELSE IF key \in { "ArrowDown", "ArrowUp" }
                 THEN /\ focus' = IF HasOption(options, activeIndex)
                                  THEN Option(activeIndex) ELSE focus
                      /\ lastChange' = NoChange
                      /\ UNCHANGED << value, isOpen, internalSelected, coords,
                                      activeIndex, listeners >>
                 ELSE CloseDropdown(focus)
            ELSE /\ focus' = IF key = "Tab" THEN Page ELSE focus
                 /\ lastChange' = NoChange
                 /\ UNCHANGED << value, isOpen, internalSelected, coords,
                                 activeIndex, listeners >>
       ELSE IF key \in { "Enter", " ", "Spacebar" }
            THEN IF isOpen THEN CloseDropdown(focus)
                           ELSE OpenDropdown(focus, activeIndex)
            ELSE /\ focus' = IF key = "Tab" THEN Page ELSE focus
                 /\ lastChange' = NoChange
                 /\ UNCHANGED << value, isOpen, internalSelected, coords,
                                 activeIndex, listeners >>
    /\ UNCHANGED << selVariant, options, hasOnChange, rect >>
    /\ UNCHANGED << navVars, formVars >>

\* Mutant of HandleMenuKeyDown: the arrows stop at the ends of the list.
HandleMenuKeyDownNoWrap(key) ==
    LET n == Len(options)
        moved(next) ==
            /\ activeIndex' = next
            /\ focus' = IF HasOption(options, next) THEN Option(next) ELSE focus
            /\ lastChange' = NoChange
            /\ UNCHANGED << value, isOpen, internalSelected, coords, listeners >>
        ignored ==
            /\ lastChange' = NoChange
            /\ UNCHANGED << value, isOpen, internalSelected, coords, activeIndex,
                            focus, listeners >>
    IN  IF n = 0 THEN ignored
        ELSE IF key = "ArrowDown"
             THEN moved(IF activeIndex + 1 < n THEN activeIndex + 1 ELSE activeIndex)
        ELSE IF key = "ArrowUp"
             THEN moved(IF activeIndex > 0 THEN activeIndex - 1 ELSE activeIndex)
        ELSE IF key = "Home" THEN moved(0)
        ELSE IF key = "End" THEN moved(n - 1)
        ELSE IF key = "Escape" THEN CloseDropdown(focus)
        ELSE IF key = "Tab" THEN CloseDropdown(Page)
        ELSE ignored

\* part_001:305-336: handleMenuKeyDown(event) with event.key = key.
HandleMenuKeyDown(key) ==
    LET n == Len(options)
        moved(next) ==
            /\ activeIndex' = next
            /\ focus' = IF HasOption(options, next) THEN Option(next) ELSE focus
            /\ lastChange' = NoChange
            /\ UNCHANGED << value, isOpen, internalSelected, coords, listeners >>
        ignored ==
            /\ lastChange' = NoChange
            /\ UNCHANGED << value, isOpen, internalSelected, coords, activeIndex,
                            focus, listeners >>
    IN  IF n = 0 THEN ignored
        ELSE IF key = "ArrowDown" THEN moved((activeIndex + 1) % n)
        ELSE IF key = "ArrowUp" THEN moved((activeIndex - 1 + n) % n)
        ELSE IF key = "Home" THEN moved(0)
        ELSE IF key = "End" THEN moved(n - 1)
        ELSE IF key = "Escape" THEN CloseDropdown(focus)
        ELSE IF key = "Tab" THEN CloseDropdown(Page)
        ELSE ignored

\* A key pressed while focus is inside the open list of part_001: on an
\* option, or on the listbox itself.  Enter and Space on an option button
\* click it (part_001:392); every key bubbles to the listbox (part_001:375).
KeyInMenu(key) ==
    /\ selVariant = Keyboard
    /\ isOpen
    /\ focus[1] \in { "option", "menu" }
    /\ IF focus[1] = "option" /\ key \in { "Enter", " ", "Spacebar" }
       THEN /\ selEvent' = << "select", options[focus[2] + 1] >>
            /\ HandleSelect(options[focus[2] + 1])
       ELSE /\ selEvent' = << "menu", key >>
            /\ HandleMenuKeyDown(key)
    /\ UNCHANGED << selVariant, options, hasOnChange, rect >>
    /\ UNCHANGED << navVars, formVars >>

\* Mutant of ClickMenu: the handler does not look for the portal menu, so a
\* press inside the list counts as outside.
ClickMenuCloses ==
    /\ isOpen
    /\ selEvent' = << "menu", "mousedown" >>
    /\ CloseDropdown(Page)
    /\ UNCHANGED << selVariant, options, hasOnChange, rect >>
    /\ UNCHANGED << navVars, formVars >>

\* A pointer press on the open list beside its options: it is inside the
\* portal menu, so handleGlobalClick ignores it (part_001:256, part_000:256),
\* and it focuses the listbox, which has tabIndex -1 (part_001:374).
ClickMenu ==
    /\ isOpen
    /\ selEvent' = << "menu", "mousedown" >>
    /\ focus' = IF selVariant = Keyboard THEN Menu ELSE Page
    /\ lastChange' = NoChange
    /\ UNCHANGED << selVariant, options, value, hasOnChange, isOpen, internalSelected,
                    coords, activeIndex, listeners, rect >>
    /\ UNCHANGED << navVars, formVars >>

\* A pointer press on the Select's container beside the trigger (its label):
\* handleGlobalClick returns at part_001:246, part_000:253; the label cannot
\* hold focus, so focus goes to the page.
MouseDownInContainer ==
    /\ selEvent' = << "container", "mousedown" >>
    /\ focus' = Page
    /\ lastChange' = NoChange
    /\ UNCHANGED << selVariant, options, value, hasOnChange, isOpen, internalSelected,
                    coords, activeIndex, listeners, rect >>
    /\ UNCHANGED << navVars, formVars >>

\* part_001:392, part_000:308: a pointer click on option i of the open list.
\* Its mousedown is inside the portal menu, so handleGlobalClick ignores it.
ClickOption(i) ==
    /\ isOpen
    /\ i \in 1..Len(options)
    /\ selEvent' = << "select", options[i] >>
    /\ HandleSelect(options[i])
    /\ UNCHANGED << selVariant, options, hasOnChange, rect >>
    /\ UNCHANGED << navVars, formVars >>

\* part_001:240-259, part_000:251-258: handleGlobalClick for a mousedown
\* outside the container and outside the portal menu; the press moves focus
\* to the page.  The listener exists only while the list is open.
OutsideMouseDown ==
    /\ selEvent' = << "outside", "mousedown" >>
    /\ IF listeners["mousedown"] > 0
       THEN CloseDropdown(Page)
       ELSE /\ focus' = Page
            /\ lastChange' = NoChange
            /\ UNCHANGED << value, isOpen, internalSelected, coords, activeIndex,
                            listeners >>
    /\ UNCHANGED << selVariant, options, hasOnChange, rect >>
    /\ UNCHANGED << navVars, formVars >>

\* part_001:261-263: handleScroll, registered for window scroll and resize;
\* the event moves the trigger on the screen.
WindowEvent(kind, r) ==
    /\ r # rect
    /\ rect' = r
    /\ selEvent' = << "window", kind >>
    /\ IF listeners[kind] > 0 /\ isOpen
       THEN CloseDropdown(focus)
       ELSE /\ lastChange' = NoChange
            /\ UNCHANGED << value, isOpen, internalSelected, coords, activeIndex,
                            focus, listeners >>
    /\ UNCHANGED << selVariant, options, hasOnChange >>
    /\ UNCHANGED << navVars, formVars >>

\* DOM focus once the options opts are rendered: an option that is no
\* longer rendered cannot hold it.
FocusAmong(opts, f) ==
    IF f[1] = "option" /\ ~ HasOption(opts, f[2]) THEN Page ELSE f

\* The caller renders the Select again, with the options opts (a new array
\* when fresh, as the literal of App.tsx:364 is at every render of App) and
\* the value prop v.  The effect of part_001:277-287 runs again when the
\* options array or the selected value is another one; the effect of
\* [isOpen] does not.
ParentRender(opts, v, fresh) ==
    /\ (v = Undefined) = (value = Undefined)
    /\ opts # options => fresh
    /\ fresh \/ v # value
    /\ options' = opts
    /\ value' = v
    /\ selEvent' = << "parent", "render" >>
    /\ IF fresh \/ SelectedValue(v, internalSelected) # SelectedValue(value, internalSelected)
       THEN /\ activeIndex' = EffectIndex(selVariant, isOpen, opts,
                                          SelectedValue(v, internalSelected), activeIndex)
            /\ focus' = EffectFocus(selVariant, isOpen, opts,
                                    SelectedValue(v, internalSelected),
                                    FocusAmong(opts, focus))
       ELSE /\ activeIndex' = activeIndex
            /\ focus' = FocusAmong(opts, focus)
    /\ lastChange' = NoChange
    /\ UNCHANGED << selVariant, hasOnChange, isOpen, internalSelected, coords,
                    listeners, rect >>
    /\ UNCHANGED << navVars, formVars >>

\* The Select after its first render and effects: part_001:285 focuses the
\* trigger at mount, part_000 leaves focus on the page.
SelectInit ==
    /\ selVariant \in { Keyboard, Basic }
    /\ options \in OptionLists
    /\ value \in ValueProps
    /\ hasOnChange \in BOOLEAN
    /\ isOpen = FALSE
    /\ internalSelected = ""
    /\ coords = [top |-> 0, left |-> 0, width |-> 0]
    /\ activeIndex = 0
    /\ focus = IF selVariant = Keyboard THEN Trigger ELSE Page
    /\ listeners = [k \in ListenerKinds |-> 0]
    /\ rect \in Rects
    /\ selEvent = << "mount", "" >>
    /\ lastChange = NoChange

\* The Gender Select of App.tsx:364, which passes neither value nor onChange.
GenderSelect ==
    /\ SelectInit
    /\ selVariant = Keyboard
    /\ options = << "Female", "Male", "Other" >>
    /\ value = Undefined
    /\ hasOnChange = FALSE
    /\ rect = [bottom |-> 120, left |-> 16, width |-> 200]

NextSelect ==
    \/ ClickTrigger
    \/ \E key \in Keys : KeyOnTrigger(key)
    \/ \E key \in Keys : KeyInMenu(key)
    \/ \E i \in 1..3 : ClickOption(i)
    \/ ClickMenu
    \/ MouseDownInContainer
    \/ OutsideMouseDown
    \/ \E kind \in { "scroll", "resize" }, r \in Rects : WindowEvent(kind, r)
    \/ \E opts \in OptionLists, v \in ValueProps, fresh \in BOOLEAN :
          ParentRender(opts, v, fresh)

(***************************************************************************)
(* BMI, App.tsx:108-129.  A JavaScript Number is an IEEE 754 double: a     *)
(* value m * 2^e with m below 2^53, and every operation rounds its exact   *)
(* result to the nearest such value, ties to the even m.  m is a natural   *)
(* number held as a sequence of limbs in base 2^15, lowest limb first.     *)
(***************************************************************************)
\* The base of the limbs of a natural number.
Base == 2^15

\* The natural numbers as sequences of limbs, lowest limb first.
Bigs == Seq(Nat)

\* The natural number n as limbs, and back.
Big[n \in Nat] == IF n = 0 THEN << >> ELSE << n % Base >> \o Big[n \div Base]

Small[a \in Bigs] == IF a = << >> THEN 0 ELSE a[1] + Base * Small[Tail(a)]

\* a without its leading zero limbs.
Norm[a \in Bigs] ==
    IF a # << >> /\ a[Len(a)] = 0 THEN Norm[SubSeq(a, 1, Len(a) - 1)] ELSE a

Limb(a, i) == IF i <= Len(a) THEN a[i] ELSE 0

\* a + b, a - b (for a >= b), the sign of a - b, a * k and a * b.
AddFrom[a \in Bigs, b \in Bigs, i \in Nat, c \in Nat] ==
    IF i > Len(a) /\ i > Len(b) THEN (IF c = 0 THEN << >> ELSE << c >>)
    ELSE << (Limb(a, i) + Limb(b, i) + c) % Base >>
           \o AddFrom[a, b, i + 1, (Limb(a, i) + Limb(b, i) + c) \div Base]

BigAdd[a \in Bigs, b \in Bigs] == AddFrom[a, b, 1, 0]

SubFrom[a \in Bigs, b \in Bigs, i \in Nat, borrow \in Nat] ==
    IF i > Len(a) THEN << >>
    ELSE IF a[i] - Limb(b, i) - borrow < 0
         THEN << a[i] - Limb(b, i) - borrow + Base >> \o SubFrom[a, b, i + 1, 1]
         ELSE << a[i] - Limb(b, i) - borrow >> \o SubFrom[a, b, i + 1, 0]

BigSub[a \in Bigs, b \in Bigs] == Norm[SubFrom[a, b, 1, 0]]

CmpFrom[a \in Bigs, b \in Bigs, i \in Nat] ==
    IF i = 0 THEN 0
    ELSE IF a[i] > b[i] THEN 1
    ELSE IF a[i] < b[i] THEN 0 - 1
    ELSE CmpFrom[a, b, i - 1]

BigCmp[a \in Bigs, b \in Bigs] ==
    IF Len(a) > Len(b) THEN 1
    ELSE IF Len(a) < Len(b) THEN 0 - 1
    ELSE CmpFrom[a, b, Len(a)]

MulSmallFrom[a \in Bigs, k \in Nat, i \in Nat, c \in Nat] ==
    IF i > Len(a) THEN (IF c = 0 THEN << >> ELSE << c >>)
    ELSE << (a[i] * k + c) % Base >> \o MulSmallFrom[a, k, i + 1, (a[i] * k + c) \div Base]

BigMulSmall[a \in Bigs, k \in Nat] == IF k = 0 THEN << >> ELSE MulSmallFrom[a, k, 1, 0]

ShiftLimbs[a \in Bigs, n \in Nat] == IF a = << >> THEN << >> ELSE [i \in 1..n |-> 0] \o a

MulFrom[a \in Bigs, b \in Bigs, j \in Nat] ==
    IF j > Len(b) THEN << >>
    ELSE BigAdd[ShiftLimbs[BigMulSmall[a, b[j]], j - 1], MulFrom[a, b, j + 1]]

BigMul[a \in Bigs, b \in Bigs] == MulFrom[a, b, 1]

\* 2^k, the number of bits of a, and bit 0 of a.
Pow2[k \in Nat] == ShiftLimbs[<< 2^(k % 15) >>, k \div 15]

BitLenSmall[n \in Nat] == IF n = 0 THEN 0 ELSE 1 + BitLenSmall[n \div 2]

BitLen[a \in Bigs] == IF a = << >> THEN 0 ELSE 15 * (Len(a) - 1) + BitLenSmall[a[Len(a)]]

Odd(a) == a # << >> /\ a[1] % 2 = 1

\* 2 * r + bit
Shift1[r \in Bigs, bit \in Nat] == BigAdd[BigAdd[r, r], Big[bit]]

BitOf(limb, j) == (limb \div 2^j) % 2

\* The quotient and remainder of a division, and of its steps for one limb.
Quotients == [q : Bigs, r : Bigs]
LimbQuotients == [q : Nat, r : Bigs]

\* Binary long division over the bits of one limb of the dividend, from bit
\* j down: r2 is the remainder so far with bit j brought down, q the
\* quotient bits found in this limb.
DivBits[r2 \in Bigs, d \in Bigs, limb \in Nat, j \in Nat, q \in Nat] ==
    IF BigCmp[r2, d] >= 0
    THEN IF j = 0 THEN [q |-> 2 * q + 1, r |-> BigSub[r2, d]]
         ELSE DivBits[Shift1[BigSub[r2, d], BitOf(limb, j - 1)], d, limb, j - 1, 2 * q + 1]
    ELSE IF j = 0 THEN [q |-> 2 * q, r |-> r2]
         ELSE DivBits[Shift1[r2, BitOf(limb, j - 1)], d, limb, j - 1, 2 * q]

\* Long division limb by limb: st is the result for limb i + 1 of the
\* dividend p, q the quotient limbs above it.
DivFrom[p \in Bigs, d \in Bigs, i \in Nat, q \in Bigs, st \in LimbQuotients] ==
    IF i = 0 THEN [q |-> Norm[<< st.q >> \o q], r |-> st.r]
    ELSE DivFrom[p, d, i - 1, << st.q >> \o q,
                 DivBits[Shift1[st.r, BitOf(p[i], 14)], d, p[i], 14, 0]]

\* The quotient q and remainder r of p divided by d.
DivMod[p \in Bigs, d \in Bigs] == DivFrom[p, d, Len(p), << >>, [q |-> 0, r |-> << >>]]

\* floor(p * 2^s / q) and its remainder
ScaledDiv[p \in Bigs, q \in Bigs, s \in Int] ==
    IF s >= 0 THEN DivMod[BigMul[p, Pow2[s]], q]
    ELSE DivMod[p, BigMul[q, Pow2[0 - s]]]

\* The quotient d.q with remainder d.r of a division by den, rounded to the
\* nearest natural number, a tie to the even one.
RoundQuotient[d \in Quotients, den \in Bigs] ==
    IF BigCmp[BigAdd[d.r, d.r], den] > 0
       \/ (BigCmp[BigAdd[d.r, d.r], den] = 0 /\ Odd(d.q))
    THEN BigAdd[d.q, << 1 >>] ELSE d.q

\* p / q as m * 2^(-s), m the rounded quotient of p * 2^s by q.
RoundScaled[p \in Bigs, q \in Bigs, s \in Int] ==
    [m |-> RoundQuotient[ScaledDiv[p, q, s], IF s >= 0 THEN q ELSE BigMul[q, Pow2[0 - s]]],
     e |-> 0 - s]

\* IEEE 754 round-to-nearest, ties-to-even: the double m * 2^e nearest to
\* p / q, for naturals p, q > 0; s is chosen so that the quotient has the
\* 53 bits of a double's significand.
RoundRatio[p \in Bigs, q \in Bigs] ==
    IF BitLen[ScaledDiv[p, q, 53 + BitLen[q] - BitLen[p]].q] > 53
    THEN RoundScaled[p, q, 53 + BitLen[q] - BitLen[p] - 1]
    ELSE RoundScaled[p, q, 53 + BitLen[q] - BitLen[p]]

\* A rounded value m * 2^e.
Roundeds == [m : Bigs, e : Int]

\* A Number: NaN, or (-1)^neg * m * 2^e.
Numbers == [nan : BOOLEAN, neg : BOOLEAN, m : Bigs, e : Int]
NaN == [nan |-> TRUE, neg |-> FALSE, m |-> << >>, e |-> 0]
Num(neg, m, e) == [nan |-> FALSE, neg |-> neg, m |-> m, e |-> e]

Scaled[r \in Roundeds, neg \in BOOLEAN, e \in Int] == Num(neg, r.m, r.e + e)

\* x / y and x * y on Numbers (y is not zero).
FDiv[x \in Numbers, y \in Numbers] ==
    IF x.m = << >> THEN Num(x.neg # y.neg, << >>, 0)
    ELSE Scaled[RoundRatio[x.m, y.m], x.neg # y.neg, x.e - y.e]

FMul[x \in Numbers, y \in Numbers] ==
    IF x.m = << >> \/ y.m = << >> THEN Num(x.neg # y.neg, << >>, 0)
    ELSE Scaled[RoundRatio[BigMul[x.m, y.m], << 1 >>], x.neg # y.neg, x.e + y.e]

\* x < n, for a Number x >= 0 and a natural n.
LessThan[x \in Numbers, n \in Nat] ==
    IF x.e >= 0 THEN BigCmp[BigMul[x.m, Pow2[x.e]], Big[n]] < 0
    ELSE BigCmp[x.m, BigMul[Big[n], Pow2[0 - x.e]]] < 0

DigitChars == << "0", "1", "2", "3", "4", "5", "6", "7", "8", "9" >>
Digits == { DigitChars[i] : i \in 1..10 }
DigitValue(c) == (CHOOSE i \in 1..10 : DigitChars[i] = c) - 1

\* The decimal digits of n, and of n / 10 with one decimal.
IntToChars[n \in Nat] ==
    IF n < 10 THEN << DigitChars[n + 1] >>
    ELSE \* The decimal digits of n, and of n / 10 with one decimal.
IntToChars[n \div 10] \o << DigitChars[(n % 10) + 1] >>

Tenths[n \in Nat] == \* The decimal digits of n, and of n / 10 with one decimal.
IntToChars[n \div 10] \o << "." >> \o << DigitChars[(n % 10) + 1] >>

\* App.tsx:125, bmiValue.toFixed(1): the n for which n / 10 - x is closest to
\* zero, the larger n if there are two, written with one decimal.
ToFixed1[x \in Numbers] ==
    IF x.e >= 0
    THEN Tenths[Small[DivMod[BigAdd[BigMulSmall[BigMul[x.m, Pow2[x.e]], 20], << 1 >>], << 2 >>].q]]
    ELSE Tenths[Small[DivMod[BigAdd[BigMulSmall[x.m, 20], Pow2[0 - x.e]], Pow2[1 - x.e]].q]]

\* The text of an input, as a sequence of characters.
Texts == Seq(STRING)

\* The number of digits of s from position i on.

DigitRun[s \in Texts, i \in Nat] ==
    IF i <= Len(s) /\ s[i] \in Digits THEN 1 + DigitRun[s, i + 1] ELSE 0

\* The n digits of s from position i on, as a natural number.
DigitsValue[s \in Texts, i \in Nat, n \in Nat] ==
    IF n = 0 THEN << >>
    ELSE BigAdd[BigMulSmall[\* The n digits of s from position i on, as a natural number.
DigitsValue[s, i, n - 1], 10], Big[DigitValue(s[i + n - 1])]]

Pow10[k \in Nat] == IF k = 0 THEN << 1 >> ELSE BigMulSmall[Pow10[k - 1], 10]

ScanParts == [a : Nat, ni : Nat, nf : Nat]
Decimals == [neg : BOOLEAN, num : Bigs, den : Bigs, nan : BOOLEAN]

\* The parts of a numeric text: a sign of a characters, ni digits, and nf
\* digits after a point.
Scan[s \in Texts, a \in Nat, ni \in Nat] ==
    [a |-> a, ni |-> ni,
     nf |-> IF a + ni + 1 <= Len(s) /\ s[a + ni + 1] = "." THEN DigitRun[s, a + ni + 2] ELSE 0]

\* The exact value num / den of a numeric text, nan if it has no digit.
Decimal[s \in Texts, t \in ScanParts] ==
    [neg |-> t.a = 1 /\ s[1] = "-",
     num |-> BigAdd[BigMul[\* The n digits of s from position i on, as a natural number.
DigitsValue[s, t.a + 1, t.ni], Pow10[t.nf]],
                    \* The n digits of s from position i on, as a natural number.
DigitsValue[s, t.a + t.ni + 2, t.nf]],
     den |-> Pow10[t.nf],
     nan |-> t.ni + t.nf = 0]

\* The double nearest to a decimal.
ToNumber[v \in Decimals] ==
    IF v.nan THEN NaN
    ELSE IF v.num = << >> THEN Num(v.neg, << >>, 0)
    ELSE Scaled[RoundRatio[v.num, v.den], v.neg, 0]

SignLen(s) == IF s # << >> /\ s[1] \in { "-", "+" } THEN 1 ELSE 0

\* App.tsx:113-114, parseFloat: the double nearest to the decimal that s
\* starts with (an optional sign, digits, an optional point and digits).
ParseFloat[s \in Texts] ==
    ToNumber[\* The exact value num / den of a numeric text, nan if it has no digit.
Decimal[s, Scan[s, SignLen(s), DigitRun[s, SignLen(s) + 1]]]]

\* App.tsx:110, 117 and 127, setBmi(null); toFixed never returns the empty text.
NoBmi == << >>

\* App.tsx:121, the divisor of h / 100.
Hundred == Num(FALSE, Big[100], 0)

\* App.tsx:124-128: bmiValue > 0 && bmiValue < 100.
BmiText[bmiValue \in Numbers] ==
    IF bmiValue.m # << >> /\ ~ bmiValue.neg /\ LessThan[bmiValue, 100]
    THEN ToFixed1[bmiValue] ELSE NoBmi

\* App.tsx:122, w / (heightInMeters * heightInMeters).
BmiValue[heightInMeters \in Numbers, w \in Numbers] ==
    FDiv[w, FMul[heightInMeters, heightInMeters]]

\* App.tsx:116-128, from the two parsed numbers on.
BmiNumber[h \in Numbers, w \in Numbers] ==
    IF h.nan \/ w.nan \/ h.m = << >> THEN NoBmi
    ELSE BmiText[BmiValue[FDiv[h, Hundred], w]]

\* App.tsx:108-129, the effect of [height, weight]: the value it passes to
\* setBmi when the inputs hold the texts ht and wt.
BmiEffect[ht \in Texts, wt \in Texts] ==
    IF ht = << >> \/ wt = << >> THEN NoBmi
    ELSE BmiNumber[ParseFloat[ht], ParseFloat[wt]]

\* The texts the two inputs may hold, as sequences of characters.  Both are
\* inputs of type number (App.tsx:372 and 380) without a minimum: their
\* value is empty or the text of a number, which may be zero, negative,
\* whole or decimal.
Heights == { << >>, << "0" >>, << "0", ".", "0" >>, << "-", "1", "7", "0" >>,
             << "1", "7", "0" >>, << "1", "6", "0" >>, << "1", "2", "0" >>,
             << "2", "0", "0" >>, << "4", "0" >>, << "1", "7", "5", ".", "5" >>,
             << "1", "0" >> }
Weights == { << >>, << "0" >>, << "7", "0" >>, << "4", "8" >>, << "2", "7" >>,
             << "6", "1" >>, << "1" >>, << "-", "7", "0" >>, << "0", ".", "5" >>,
             << "7", "0", ".", "5" >>, << "5", "0", "0" >> }

\* App.tsx:390, the text the BMI display shows.
Placeholder == << "-", "-", ".", "-" >>
BmiDisplay(b) == IF b = NoBmi THEN Placeholder ELSE b

\* App.tsx:376: onChange of the height input, and the effect of [height, weight].
SetHeight(x) ==
    /\ x # height
    /\ height' = x
    /\ bmi' = BmiEffect[x, weight]
    /\ UNCHANGED << weight, age, ageEvent, taVars, mode, navVars, selVars >>

\* App.tsx:384: onChange of the weight input, and the effect of [height, weight].
SetWeight(x) ==
    /\ x # weight
    /\ weight' = x
    /\ bmi' = BmiEffect[height, x]
    /\ UNCHANGED << height, age, ageEvent, taVars, mode, navVars, selVars >>

(***************************************************************************)
(* Age / DOB, App.tsx:132-147 and 352-361.                                 *)
(***************************************************************************)
\* App.tsx:143, the year above which a number is taken for a year of birth.
BirthYearFloor == 1900

\* App.tsx:142, the values new Date().getFullYear() may return: this year,
\* and years far enough ahead for an age to exceed BirthYearFloor.
Years == { 2026, 3802, 3803 }

\* The texts a change event of the input (a text input, App.tsx:352-361) may
\* carry: typed or pasted, with or without characters that are not digits.
AgeInputs == { << >>, << "0" >>, << "1", "5" >>, << "1", "9", "0", "0" >>,
               << "1", "9", "0", "1" >>, << "1", "9", "0", "2" >>,
               << "1", "9", "5", "0" >>, << "2", "0", "2", "6" >>,
               << "2", "0", "2", "7" >>, << "0", "1", "9", "5", "0" >>,
               << "3", "8", "0", "3" >>, << "9", "9", "9", "9", "9" >>,
               << "1", "2", "a" >>, << "a", "b", "c" >>, << "-", "5" >>,
               << "1", "9", ".", "5" >>, << "1", "9", "5", "0", " " >> }

\* App.tsx:134, /^\d+$/.test(val)
AllDigits(val) == val # << >> /\ \A i \in 1..Len(val) : val[i] \in Digits

\* App.tsx:141, parseInt(age, 10): the integer that the text starts with (an
\* optional sign and digits), nan if it starts with no digit.
ParseInt[s \in Texts] ==
    [nan |-> DigitRun[s, SignLen(s) + 1] = 0,
     n |-> IF s # << >> /\ s[1] = "-"
           THEN 0 - Small[DigitsValue[s, 2, DigitRun[s, 2]]]
           ELSE Small[DigitsValue[s, SignLen(s) + 1, DigitRun[s, SignLen(s) + 1]]]]

\* App.tsx:145, calculatedAge.toString() for an integer.
NumberToString(n) == IF n < 0 THEN << "-" >> \o IntToChars[0 - n] ELSE IntToChars[n]

\* handleAgeBlur taking 1900 itself for a year of birth.
AgeAfterBlurFrom1900(a, currentYear) ==
    IF a = << >> THEN a
    ELSE IF /\ ~ ParseInt[a].nan
            /\ ParseInt[a].n >= BirthYearFloor
            /\ ParseInt[a].n <= currentYear
         THEN NumberToString(currentYear - ParseInt[a].n)
         ELSE a

\* handleAgeBlur taking every positive number for a year of birth.
AgeAfterBlurNoFloor(a, currentYear) ==
    IF a = << >> THEN a
    ELSE IF /\ ~ ParseInt[a].nan
            /\ ParseInt[a].n > 0
            /\ ParseInt[a].n <= currentYear
         THEN NumberToString(currentYear - ParseInt[a].n)
         ELSE a

\* App.tsx:139-147, handleAgeBlur: the value of age after a blur when the
\* clock shows currentYear.
AgeAfterBlur(a, currentYear) ==
    IF a = << >> THEN a
    ELSE IF /\ ~ ParseInt[a].nan
            /\ ParseInt[a].n > BirthYearFloor
            /\ ParseInt[a].n <= currentYear
         THEN NumberToString(currentYear - ParseInt[a].n)
         ELSE a

\* handleAgeChange committing every value.
HandleAgeChangeUnfiltered(val) ==
    /\ val # age
    /\ age' = val
    /\ ageEvent' = [kind |-> "change", year |-> 0, arg |-> val, again |-> FALSE]
    /\ UNCHANGED << height, weight, bmi, taVars, mode, navVars, selVars >>

\* App.tsx:132-137, handleAgeChange(e) with e.target.value = val.
HandleAgeChange(val) ==
    /\ val # age
    /\ age' = IF val = << >> \/ AllDigits(val) THEN val ELSE age
    /\ ageEvent' = [kind |-> "change", year |-> 0, arg |-> val, again |-> FALSE]
    /\ UNCHANGED << height, weight, bmi, taVars, mode, navVars, selVars >>

\* App.tsx:139-147, handleAgeBlur() when the clock shows currentYear.  The
\* event records the value before the first of a run of blurs.
HandleAgeBlur(currentYear) ==
    /\ age' = AgeAfterBlur(age, currentYear)
    /\ ageEvent' = [kind |-> "blur", year |-> currentYear,
                    arg |-> IF ageEvent.kind = "blur" THEN ageEvent.arg ELSE age,
                    again |-> ageEvent.kind = "blur"]
    /\ UNCHANGED << height, weight, bmi, taVars, mode, navVars, selVars >>

\* App.tsx:76 and 85-90
FormInit ==
    /\ height = << >>
    /\ weight = << >>
    /\ bmi = NoBmi
    /\ age = << >>
    /\ ageEvent = [kind |-> "mount", year |-> 0, arg |-> << >>, again |-> FALSE]
    /\ mode = "adult"

(***************************************************************************)
(* TextArea, part_000:165-207 (resizes itself) and part_001:154-169.       *)
(***************************************************************************)
AutoResize == "part_000"
Plain == "part_001"

\* The height of one line of text in px, and the texts of the element as
\* sequences of lines.
LineHeight == 28
MaxLines == 3
Lines == { "a", "b" }
TextLines == UNION { [1..n -> Lines] : n \in 0..MaxLines }

\* element.scrollHeight when the element holds the text t and its height is
\* auto: the height of its lines, one line for the empty text.
ScrollHeight(t) == (IF Len(t) = 0 THEN 1 ELSE Len(t)) * LineHeight

Unset == "unset"
Auto == "auto"

\* part_000:170-178, adjustHeight() while the element holds the text t: the
\* writes to element.style.height.
AdjustHeight(t) == << Auto, ScrollHeight(t) >>

\* element.style.height after the writes ws.
HeightAfter(h, ws) == IF ws = << >> THEN h ELSE ws[Len(ws)]

\* part_000:180-182, the layout effect of [value]: it runs after the first
\* render and after every render in which the value prop has changed, while
\* the element holds the text t.  part_001 has no such effect.
LayoutEffect(variant, changed, t) ==
    IF variant = AutoResize /\ changed THEN AdjustHeight(t) ELSE << >>

\* part_000:198-202: the handler of the element's change event.  The props
\* are spread after onChange, so a caller's onChange replaces the one that
\* calls adjustHeight; part_001:163-166 passes the props alone.
OnChangeWrites(variant, ownOnChange, t) ==
    IF variant = AutoResize /\ ~ ownOnChange THEN AdjustHeight(t) ELSE << >>

\* The user edits the text to t.  The change handler runs while the element
\* holds t.  An uncontrolled element keeps t.  A controlled one keeps t only
\* if the caller's onChange sets the value prop to it (accept), and the
\* layout effect then runs before the paint; otherwise the element is put
\* back to the value prop.
TypeText(t, accept) ==
    /\ t # taText
    /\ accept => taControlled /\ taHasOnChange
    /\ taValue' = IF accept THEN t ELSE taValue
    /\ taText' = IF ~ taControlled \/ accept THEN t ELSE taText
    /\ taWrites' = OnChangeWrites(taVariant, taHasOnChange, t)
                      \o LayoutEffect(taVariant, accept, t)
    /\ taHeight' = HeightAfter(taHeight, taWrites')
    /\ taEvent' = IF taText' # taText THEN "change" ELSE "rejected"
    /\ UNCHANGED << taVariant, taControlled, taHasOnChange >>
    /\ UNCHANGED << height, weight, bmi, age, ageEvent, mode, navVars, selVars >>

\* The caller renders a controlled TextArea with another value.
SetValue(t) ==
    /\ taControlled
    /\ t # taValue
    /\ taValue' = t
    /\ taText' = t
    /\ taWrites' = LayoutEffect(taVariant, TRUE, t)
    /\ taHeight' = HeightAfter(taHeight, taWrites')
    /\ taEvent' = "change"
    /\ UNCHANGED << taVariant, taControlled, taHasOnChange >>
    /\ UNCHANGED << height, weight, bmi, age, ageEvent, mode, navVars, selVars >>

\* A TextArea after its first render and layout effect.
TextAreaInit ==
    /\ taVariant \in { AutoResize, Plain }
    /\ taControlled \in BOOLEAN
    /\ taValue \in IF taControlled THEN TextLines ELSE { << >> }
    /\ taHasOnChange \in BOOLEAN
    /\ taText = taValue
    /\ taWrites = LayoutEffect(taVariant, TRUE, taText)
    /\ taHeight = HeightAfter(Unset, taWrites)
    /\ taEvent = "mount"

\* The Patient Name TextArea of App.tsx:349, which passes neither value nor
\* onChange.
PatientName ==
    /\ TextAreaInit
    /\ taVariant = Plain
    /\ taControlled = FALSE
    /\ taHasOnChange = FALSE

(***************************************************************************)
(* The navigator.                                                          *)
(***************************************************************************)
NavInit ==
    /\ mounted = TRUE
    /\ activeSectionId = "identity"
    /\ expandedSections = [s \in SectionIds |-> s \in {"concern", "identity"}]
    /\ isManualScrolling = FALSE
    /\ timers = << >>
    /\ scrollY = 0
    /\ scrollCall = NoCall
    /\ lastEvent = "mount"
    /\ pc = "idle"
    /\ navId = NoId

Init == NavInit /\ GenderSelect /\ FormInit /\ PatientName

Next ==
    \/ \E y \in ScrollYs : HandleScroll(y)
    \/ \E id \in SectionIds : ToggleSection(id)
    \/ \E id \in SectionIds : NavSetLock(id)
    \/ NavSetActive
    \/ NavExpandAndSchedule
    \/ \E i \in 1..MaxTimers : SettleFires(i)
    \/ \E i \in 1..MaxTimers : UnlockFires(i)
    \/ Unmount

Spec == Init /\ [][Next]_vars

\* The navigator when no navigation click overlaps another one: a click
\* happens only when no timer of an earlier click is pending.
NavSetLockAlone(id) == timers = << >> /\ NavSetLock(id)

NextSingle ==
    \/ \E y \in ScrollYs : HandleScroll(y)
    \/ \E id \in SectionIds : ToggleSection(id)
    \/ \E id \in SectionIds : NavSetLockAlone(id)
    \/ NavSetActive
    \/ NavExpandAndSchedule
    \/ \E i \in 1..MaxTimers : SettleFires(i)
    \/ \E i \in 1..MaxTimers : UnlockFires(i)
    \/ Unmount

SpecSingle == Init /\ [][NextSingle]_vars

\* The navigator with the mode switch and with clicks on the nav item of
\* the active section, no navigation click overlapping another one.
NextApp ==
    \/ \E y \in ScrollYs : HandleScroll(y)
    \/ \E id \in SectionIds : ToggleSection(id)
    \/ \E id \in SectionIds : NavSetLockAlone(id)
    \/ \E id \in SectionIds : NavReturn(id)
    \/ NavSetActive
    \/ NavExpandAndSchedule
    \/ \E i \in 1..MaxTimers : SettleFires(i)
    \/ \E i \in 1..MaxTimers : UnlockFires(i)
    \/ \E m \in Modes : SetMode(m)
    \/ Unmount

SpecApp == Init /\ [][NextApp]_vars

\* One Select, in every variant and with every combination of props.
InitSelect == NavInit /\ SelectInit /\ FormInit /\ PatientName

SpecSelect == InitSelect /\ [][NextSelect]_vars

\* The anthropometry fields alone: the user edits the two inputs.
NextBmi ==
    \/ \E x \in Heights : SetHeight(x)
    \/ \E x \in Weights : SetWeight(x)

SpecBmi == Init /\ [][NextBmi]_vars

\* The Age / DOB field alone: the user edits it and leaves it.
NextAge ==
    \/ \E val \in AgeInputs : HandleAgeChange(val)
    \/ \E currentYear \in Years : HandleAgeBlur(currentYear)

SpecAge == Init /\ [][NextAge]_vars

\* One TextArea, in every variant and with every combination of props.
InitTextArea == NavInit /\ GenderSelect /\ FormInit /\ TextAreaInit

NextTextArea ==
    \/ \E t \in TextLines, accept \in BOOLEAN : TypeText(t, accept)
    \/ \E t \in TextLines : SetValue(t)

SpecTextArea == InitTextArea /\ [][NextTextArea]_vars

(***************************************************************************)
(* Properties of the navigator.                                            *)
(***************************************************************************)
\* A step that handles a window scroll event: only handleScroll writes scrollY.
ScrollStepTaken == scrollY' # scrollY

\* The indices of the sections whose window, as the specification states it,
\* contains the trigger point tp.
Matching(exp, tp) ==
    { i \in 1..Len(SECTIONS) :
        /\ OffsetTop(exp, SECTIONS[i]) - 140 <= tp
        /\ tp < OffsetTop(exp, SECTIONS[i]) - 140 + OffsetHeight(exp, SECTIONS[i]) + 100 }

Largest(S) == CHOOSE i \in S : \A j \in S : j <= i

\* C1: while the lock isManualScrolling is set, a window scroll event leaves
\* the active section unchanged, at every scroll offset and in every layout.
C1_LockedScrollKeepsActive ==
    [][(ScrollStepTaken /\ isManualScrolling) => activeSectionId' = activeSectionId]_vars

\* A scroll event was handled under the lock at an offset whose trigger point
\* lies in the window of another section than the active one.
C1_Witness ==
    /\ lastEvent = "scroll"
    /\ isManualScrolling
    /\ Matching(expandedSections, scrollY + 300) # {}
    /\ SECTIONS[Largest(Matching(expandedSections, scrollY + 300))] # activeSectionId

\* C2: timers are never cancelled, so the 800 ms timer of an earlier click
\* clears the lock whatever other timers are pending, and while the lock is
\* clear a scroll event recomputes the active section even though the timer
\* of a later click is still pending.
C2_StaleUnlockRace ==
    /\ [][(Len(timers') < Len(timers) /\ lastEvent' = "unlock")
            => ~ isManualScrolling']_vars
    /\ [][(ScrollStepTaken /\ ~ isManualScrolling /\ timers # << >>
             /\ Matching(expandedSections, scrollY' + 300) # {})
            => activeSectionId' =
                 SECTIONS[Largest(Matching(expandedSections, scrollY' + 300))]]_vars

\* The race: the settle timer of the second click is still pending, the lock
\* is already clear, and a scroll event has moved the active section away
\* from the section the second click selected.
C2_Witness ==
    /\ lastEvent = "scroll"
    /\ ~ isManualScrolling
    /\ Len(timers) = 1
    /\ timers[1].kind = "settle"
    /\ timers[1].id # activeSectionId

\* C3: for a navigation click that no other click overlaps, the lock is set
\* from the click until its 800 ms timer fires, and all that time the active
\* section is the clicked one, whatever scroll events occur.
C3_SingleClickWindow ==
    /\ [](pc = "l185" => isManualScrolling)
    /\ [](pc = "l186" => (isManualScrolling /\ activeSectionId = navId))
    /\ [](timers # << >> => isManualScrolling)
    /\ []((timers # << >> /\ timers[1].kind = "settle")
            => activeSectionId = timers[1].id)
    /\ [][timers # << >> => activeSectionId' = activeSectionId]_vars

\* The scroll of the click is animating (its 800 ms timer is pending) and a
\* scroll event arrived whose trigger point lies in another section.
C3_Witness ==
    /\ lastEvent = "scroll"
    /\ mounted
    /\ Len(timers) = 1
    /\ timers[1].kind = "unlock"
    /\ Matching(expandedSections, scrollY + 300) # {}
    /\ SECTIONS[Largest(Matching(expandedSections, scrollY + 300))] # activeSectionId

\* C4: a navigation click sets the lock before it changes the active section
\* and before its scroll is invoked: while scrollToSection is past its first
\* statement the lock is set, the settle timer (the only caller of scrollTo)
\* is scheduled with the lock set, and scrollTo is called by that timer only.
C4_LockSetFirst ==
    /\ [](pc # "idle" => isManualScrolling)
    /\ [][Len(timers') > Len(timers) => (pc = "l186" /\ isManualScrolling)]_vars
    /\ [][(scrollCall' # NoCall /\ scrollCall' # scrollCall)
            => (pc = "idle" /\ \E i \in 1..Len(timers) : timers[i].kind = "settle")]_vars

\* The click has changed the active section and is still running.
C4_Witness ==
    /\ pc = "l186"
    /\ activeSectionId = navId
    /\ isManualScrolling

\* C5: whenever the lock is set, a navigation click is running or one of its
\* timers is pending: once every timer has fired the lock is clear.
C5_LockClearedAtLast ==
    isManualScrolling => (pc # "idle" \/ timers # << >>)

\* The last pending timer has just fired.
C5_Witness ==
    /\ lastEvent \in {"unlock", "settle"}
    /\ pc = "idle"
    /\ timers = << >>
    /\ ~ isManualScrolling

\* C6: the click handler on a collapsed section that is not active makes it
\* the active section and expands it before any timer fires, and leaves the
\* expanded status of every other section as it was.
C6_ClickActivatesAndExpands ==
    /\ [][(pc = "idle" /\ pc' = "l185")
            => (expandedSections' = expandedSections /\ activeSectionId # navId')]_vars
    /\ [][(pc = "l185" /\ pc' = "l186")
            => (expandedSections' = expandedSections /\ timers' = timers)]_vars
    /\ [][(pc = "l186" /\ pc' = "idle" /\ ~ expandedSections[navId])
            => /\ activeSectionId' = navId
               /\ expandedSections'[navId]
               /\ \A s \in SectionIds \ {navId} :
                     expandedSections'[s] = expandedSections[s]
               /\ Len(timers') = Len(timers) + 1]_vars

\* The running click is on a section that is still collapsed and that the
\* click has made active.
C6_Witness ==
    /\ pc = "l186"
    /\ ~ expandedSections[navId]
    /\ activeSectionId = navId
    /\ \E s \in SectionIds \ {navId} : expandedSections[s]

\* C7: scrollTo is never called by the click handler, only by the 50 ms
\* timer, with the section's document top at that moment minus 110.
C7_ScrollAtSettleOnly ==
    /\ [](lastEvent # "settle" => scrollCall = NoCall)
    /\ [][(lastEvent' = "settle" /\ timers' # timers /\ mounted)
            => \E i \in 1..Len(timers) :
                 /\ timers[i].kind = "settle"
                 /\ \A j \in 1..(i - 1) : timers[j].kind # "settle"
                 /\ scrollCall' = << OffsetTop(expandedSections, timers[i].id) - 110 >>]_vars

\* The settle timer fired while the page was scrolled away from the top.
C7_Witness ==
    /\ scrollCall # NoCall
    /\ scrollY # 0

\* C8: a scroll event handled while the lock is clear makes the active
\* section the last section, in the fixed order, whose window contains the
\* trigger point scrollY + 300, and keeps the active section when no window
\* contains it.
C8_LastMatchingSection ==
    [][(ScrollStepTaken /\ ~ isManualScrolling)
        => activeSectionId' =
             IF Matching(expandedSections, scrollY' + 300) = {}
             THEN activeSectionId
             ELSE SECTIONS[Largest(Matching(expandedSections, scrollY' + 300))]]_vars

\* A scroll event was handled, with the lock clear, at a trigger point that
\* lies in the windows of two sections, and the later one is active.
C8_Witness ==
    /\ lastEvent = "scroll"
    /\ ~ isManualScrolling
    /\ Cardinality(Matching(expandedSections, scrollY + 300)) >= 2
    /\ activeSectionId = SECTIONS[Largest(Matching(expandedSections, scrollY + 300))]

(***************************************************************************)
(* Properties of the Select.                                               *)
(***************************************************************************)
\* C9: whichever of value and onChange the caller supplies, activating an
\* option of the open list makes it the displayed selected value and leaves
\* the list closed.
C9_ActivationCommitsOption ==
    selEvent[1] = "select" =>
        (~ isOpen /\ SelectedValue(value, internalSelected) = selEvent[2])

\* C10: a step that closes the list without activating an option (outside
\* mousedown, window scroll or resize, Escape, Tab, the trigger again) keeps
\* the selected value and does not call onChange.
C10_CloseKeepsSelection ==
    [][(isOpen /\ ~ isOpen' /\ selEvent'[1] # "select")
        => /\ SelectedValue(value', internalSelected') =
                SelectedValue(value, internalSelected)
           /\ internalSelected' = internalSelected
           /\ value' = value
           /\ lastChange' = NoChange]_vars

\* The list was closed with Escape while an option was selected and another
\* option was active.
C10_Witness ==
    /\ selEvent = << "menu", "Escape" >>
    /\ ~ isOpen
    /\ internalSelected = "Male"
    /\ SelectedValue(value, internalSelected) = "Male"
    /\ activeIndex # 1

\* C11: the displayed value is the value prop whenever the caller supplies
\* one, whatever the internal selection is; when the caller supplies neither
\* value nor onChange it is the internal selection, which is empty at first
\* and after that the option activated last.
C11_DisplayedValue ==
    /\ [](value # Undefined => SelectedValue(value, internalSelected) = value)
    /\ []((value = Undefined /\ ~ hasOnChange)
            => SelectedValue(value, internalSelected) = internalSelected)
    /\ ((value = Undefined /\ ~ hasOnChange) => internalSelected = "")
    /\ [][(value = Undefined /\ ~ hasOnChange)
            => internalSelected' = IF selEvent'[1] = "select"
                                   THEN selEvent'[2] ELSE internalSelected]_vars

\* A value is supplied and the internal selection is another option.
C11_Witness ==
    /\ value = "Male"
    /\ internalSelected = "Female"
    /\ SelectedValue(value, internalSelected) = "Male"

\* C12: a window scroll or resize event that arrives while the list is open
\* closes it.
C12_WindowEventCloses ==
    [][(isOpen /\ selEvent'[1] = "window") => ~ isOpen']_vars

\* C13: while the list is open, a mousedown outside the container and the
\* list closes it, and a mousedown inside the container or inside the list
\* leaves it open.
C13_OutsideMouseDown ==
    [][isOpen =>
        /\ (selEvent' = << "outside", "mousedown" >> => ~ isOpen')
        /\ (selEvent' \in { << "menu", "mousedown" >>, << "container", "mousedown" >> }
              => isOpen')]_vars

\* An outside mousedown has closed the list of the keyboard variant, whose
\* closing effect returns focus to the trigger.
C13_Witness ==
    /\ selEvent = << "outside", "mousedown" >>
    /\ ~ isOpen
    /\ selVariant = Keyboard
    /\ focus = Trigger

\* C14: in every open state, also with no options, Escape closes the list
\* and leaves focus on the trigger, and Tab closes the list.
C14_EscapeAndTabClose ==
    [][(isOpen /\ selEvent'[2] \in { "Escape", "Tab" })
        => /\ ~ isOpen'
           /\ (selEvent'[2] = "Escape" => focus' = Trigger)]_vars

\* C15: a closed Select opens on a click on the trigger and on Enter, Space,
\* ArrowUp and ArrowDown pressed on the focused trigger, and on no other key.
C15_TriggerOpens ==
    [][(~ isOpen /\ selEvent'[1] = "trigger")
        => isOpen' = (selEvent'[2] \in { "click", "Enter", " ", "Spacebar",
                                          "ArrowUp", "ArrowDown" })]_vars

\* C16: in an open list of N >= 1 options with active index i, ArrowDown
\* makes the active index (i + 1) mod N, ArrowUp (i - 1 + N) mod N, Home 0 and
\* End N - 1, and focus moves to the option at the new active index.
C16_RovingFocus ==
    [][(isOpen /\ Len(options) >= 1 /\ selEvent'[1] = "menu"
          /\ selEvent'[2] \in { "ArrowDown", "ArrowUp", "Home", "End" })
        => LET n == Len(options)
               next == IF selEvent'[2] = "ArrowDown" THEN (activeIndex + 1) % n
                       ELSE IF selEvent'[2] = "ArrowUp" THEN (activeIndex - 1 + n) % n
                       ELSE IF selEvent'[2] = "Home" THEN 0
                       ELSE n - 1
           IN  /\ activeIndex' = next
               /\ focus' = << "option", next >>]_vars

\* ArrowDown on the last of three options has wrapped to the first.
C16_Witness ==
    /\ selEvent = << "menu", "ArrowDown" >>
    /\ Len(options) = 3
    /\ activeIndex = 0
    /\ focus = << "option", 0 >>

C18_ListFollowsTrigger ==
    isOpen => coords = [top |-> rect.bottom + 8, left |-> rect.left, width |-> rect.width]

\* The exact value of the text of an input.
ExactOf(s) == Decimal[s, Scan[s, SignLen(s), DigitRun[s, SignLen(s) + 1]]]

\* The text s parses as a number, and as a positive one.
ParsesNumber(s) == s # << >> /\ ~ ExactOf(s).nan
ParsesPositive(s) == ParsesNumber(s) /\ ~ ExactOf(s).neg /\ ExactOf(s).num # << >>

Fractions == [num : Bigs, den : Bigs]

\* weight / (height / 100)^2 as the exact fraction num / den, for the exact
\* values h of the height and w of the weight: w * 100^2 / h^2.
ExactBmi[h \in Decimals, w \in Decimals] ==
    [num |-> BigMulSmall[BigMul[w.num, BigMul[h.den, h.den]], 10000],
     den |-> BigMul[w.den, BigMul[h.num, h.num]]]

\* A positive fraction below 100.
BelowHundred[x \in Fractions] ==
    x.num # << >> /\ BigCmp[x.num, BigMulSmall[x.den, 100]] < 0

\* A fraction rounded to one decimal place, a tie upwards.
RoundedToOneDecimal[x \in Fractions] ==
    Tenths[Small[DivMod[BigAdd[BigMulSmall[x.num, 20], x.den], BigAdd[x.den, x.den]].q]]

\* Both inputs parse as positive numbers and the quotient lies in (0, 100).
BmiDefined ==
    /\ ParsesPositive(height)
    /\ ParsesPositive(weight)
    /\ BelowHundred[ExactBmi[ExactOf(height), ExactOf(weight)]]

\* C19: the BMI display shows a value exactly when both inputs parse as
\* positive numbers and weight / (height / 100)^2 lies strictly between 0
\* and 100; in every other state it shows the placeholder.
C19_ShownOnlyWhenPositive ==
    IF BmiDefined THEN BmiDisplay(bmi) # Placeholder ELSE BmiDisplay(bmi) = Placeholder

\* C20: for a positive height and weight whose quotient lies in (0, 100) the
\* display is the quotient rounded to one decimal place; for a height of
\* zero, an input that is not a number or an empty input it is the
\* placeholder.
C20_RoundedToOneDecimal ==
    /\ BmiDefined =>
           BmiDisplay(bmi) = RoundedToOneDecimal[ExactBmi[ExactOf(height), ExactOf(weight)]]
    /\ (\/ ~ ParsesNumber(height)
        \/ ~ ParsesNumber(weight)
        \/ ExactOf(height).num = << >>) => BmiDisplay(bmi) = Placeholder

\* C21: a blur of the age field holding digits that parse to y makes the
\* value currentYear - y when 1900 < y <= currentYear, and leaves it as it
\* is for every other y and for the empty field.
C21_BlurConvertsBirthYear ==
    [][ageEvent'.kind = "blur" =>
          IF /\ AllDigits(age)
             /\ ParseInt[age].n > 1900
             /\ ParseInt[age].n <= ageEvent'.year
          THEN /\ AllDigits(age')
               /\ ParseInt[age'].n = ageEvent'.year - ParseInt[age].n
          ELSE age' = age]_vars

\* The field held 1950 when it was left in 2026, and now holds 76.
C21_Witness ==
    /\ ageEvent.kind = "blur"
    /\ ~ ageEvent.again
    /\ ageEvent.year = 2026
    /\ ageEvent.arg = << "1", "9", "5", "0" >>
    /\ age = << "7", "6" >>

\* C22: the age held in state is empty or all decimal digits; a change
\* event whose value has another character is not committed, and a blur
\* gives no value with another character.
C22_AgeIsDigits ==
    /\ [](age = << >> \/ AllDigits(age))
    /\ [][(/\ ageEvent'.kind = "change"
           /\ ageEvent'.arg # << >>
           /\ ~ AllDigits(ageEvent'.arg)) => age' = age]_vars

\* The field held 15 and a change event carrying 12a was not committed.
C22_Witness ==
    /\ ageEvent.kind = "change"
    /\ ageEvent.arg = << "1", "2", "a" >>
    /\ age = << "1", "5" >>

\* C30: a blur that follows a blur in the same year, with no change in
\* between, leaves the value of the first blur, whatever the year.
C30_BlurIdempotent ==
    [][(/\ ageEvent.kind = "blur"
        /\ ageEvent'.kind = "blur"
        /\ ageEvent'.year = ageEvent.year) => age' = age]_vars

\* C30, amended: a blur that follows a blur in the same year, with no change
\* in between, leaves the value of the first blur when the year is at most
\* 3802, so that no age computed from a year of birth above 1900 is itself
\* taken for another year of birth.
C30_BlurIdempotentUntil3802 ==
    [][(/\ ageEvent.kind = "blur"
        /\ ageEvent'.kind = "blur"
        /\ ageEvent'.year = ageEvent.year
        /\ ageEvent.year <= 3802) => age' = age]_vars

\* The field held 1950, was left twice in a row in 2026, and holds 76.
C30_Witness ==
    /\ ageEvent.kind = "blur"
    /\ ageEvent.again
    /\ ageEvent.year = 2026
    /\ ageEvent.arg = << "1", "9", "5", "0" >>
    /\ age = << "7", "6" >>

\* C23: after the mount and after every change of the text of a TextArea,
\* controlled or not, with or without a change handler of the caller, the
\* height of the element has been reset to auto and then set to the
\* measured height of its content, within the same step.
C23_HeightRecomputed ==
    taEvent \in { "mount", "change" } => taWrites = << Auto, ScrollHeight(taText) >>

\* C26: while a Select with keyboard support is open with N >= 1 options
\* its active index lies in 0..N-1, and on every transition from closed to
\* open the active index is that of the selected value among the options,
\* or 0 when nothing is selected or the selected value is not an option.
C26_ActiveIndex ==
    /\ []((selVariant = Keyboard /\ isOpen /\ Len(options) >= 1)
            => activeIndex \in 0..(Len(options) - 1))
    /\ [][(selVariant = Keyboard /\ ~ isOpen /\ isOpen') =>
            IF \E i \in 1..Len(options') :
                   options'[i] = SelectedValue(value', internalSelected')
            THEN /\ activeIndex' \in 0..(Len(options') - 1)
                 /\ options'[activeIndex' + 1] = SelectedValue(value', internalSelected')
            ELSE activeIndex' = 0]_vars

\* The list has just been opened from the trigger with Male selected, and
\* the active index is that of Male.
C26_Witness ==
    /\ selVariant = Keyboard
    /\ isOpen
    /\ selEvent[1] = "trigger"
    /\ options = << "Female", "Male", "Other" >>
    /\ SelectedValue(value, internalSelected) = "Male"
    /\ activeIndex = 1

\* C27: a Select takes DOM focus to its trigger only when it goes from open
\* to closed: not at mount, and not when its caller renders it again, with a
\* new options array or a new selected value, while it stays closed.
C27_FocusOnlyOnClose ==
    /\ selEvent[1] = "mount" => focus # Trigger
    /\ [][(selEvent'[1] = "parent" /\ ~ isOpen /\ ~ isOpen') => focus' = focus]_vars

\* C24: the active section is always one of the seven sections, and it is
\* identity at the start, whatever scroll events, navigation clicks, toggles
\* and mode changes have happened.
C24_ActiveIsASection ==
    /\ lastEvent = "mount" => activeSectionId = "identity"
    /\ activeSectionId \in
          { "identity", "concern", "hpi", "ros", "background", "exam", "plan" }

\* After a mode change and a toggle of identity, a scroll event has made the
\* last section the active one.
C24_Witness ==
    /\ lastEvent = "scroll"
    /\ mode = "peds"
    /\ ~ expandedSections["identity"]
    /\ activeSectionId = "plan"

\* The sections whose expanded status differs between exp and other.
Flipped(exp, other) == { id \in SectionIds : exp[id] # other[id] }

C28_ClickOnActiveIsNoOp ==
    [][lastEvent' = "same" =>
          /\ isManualScrolling' = isManualScrolling
          /\ timers' = timers
          /\ scrollCall' = NoCall
          /\ expandedSections' = expandedSections
          /\ activeSectionId' = activeSectionId
          /\ scrollY' = scrollY]_vars

\* The nav item of the active section was clicked while that section was
\* collapsed and no lock was set.
C28_Witness ==
    /\ lastEvent = "same"
    /\ ~ expandedSections[activeSectionId]
    /\ ~ isManualScrolling
    /\ timers = << >>

\* The pending timers of one kind.
TimersOf(ts, kind) == Cardinality({ i \in 1..Len(ts) : ts[i].kind = kind })

\* C29: when the 50 ms timer fires and the target element does not exist,
\* window.scrollTo is not called, no 800 ms timer is started and the lock is
\* cleared in that step; the active section and the expanded status of every
\* section stay as they are.
C29_SettleWithoutElement ==
    [][(lastEvent' = "settle" /\ ~ mounted) =>
          /\ scrollCall' = NoCall
          /\ TimersOf(timers', "unlock") = TimersOf(timers, "unlock")
          /\ TimersOf(timers', "settle") = TimersOf(timers, "settle") - 1
          /\ ~ isManualScrolling'
          /\ activeSectionId' = activeSectionId
          /\ expandedSections' = expandedSections]_vars

\* The component was unmounted after a click on plan, and the 50 ms timer
\* has fired: the lock is clear and the click's writes are kept.
C29_Witness ==
    /\ lastEvent = "settle"
    /\ ~ mounted
    /\ ~ isManualScrolling
    /\ timers = << >>
    /\ scrollCall = NoCall
    /\ activeSectionId = "plan"
    /\ expandedSections["plan"]

=============================================================================
